---- MODULE Spec2Model ----
(***************************************************************************)
(* Model of the document-to-Markdown converter: convert_documents.py (DOCX *)
(* and PDF, with the MediaBox repair and the retry) and convert_docx.py    *)
(* (DOCX only).  Two specifications are given:                             *)
(*   Spec        one run of main() over config.ini, item by item;          *)
(*   RepairSpec  patch_pdf_mediabox applied to a PDF, and again to the     *)
(*               file it wrote.                                            *)
(***************************************************************************)
EXTENDS Integers, Sequences, FiniteSets, TLC

VARIABLES
    script,         \* which program runs: "convert_documents" or "convert_docx"
    config,         \* input/config.ini: [exists, hasFiles, values]
    pc,             \* position of main / convert_document_to_markdown
    files,          \* the work list returned by parse_config
    idx,            \* 1-based position of the for loop of main in files
    success_count,  \* main's counter of converted items
    failure_count,  \* main's counter of missing or failed items
    rc,             \* main's return value: <<>> while it runs, then <<code>>
    cur,            \* locals of convert_document_to_markdown for the current item
    outputDir,      \* files written below output/: path -> content
    log,            \* what was done for the current item, in order: one
                    \* record per call and the verdict (kept until the next
                    \* item starts)
    results,        \* one record per handled item, in the order handled
    srcPdf,         \* RepairSpec: the pages of the PDF handed to the repair
    runs            \* RepairSpec: the calls of patch_pdf_mediabox made so far

vars == <<script, config, pc, files, idx, success_count, failure_count, rc,
          cur, outputDir, log, results, srcPdf, runs>>

mainVars == <<script, config, pc, files, idx, success_count, failure_count, rc,
              cur, outputDir, log, results>>

repairVars == <<srcPdf, runs>>

----------------------------------------------------------------------------
(* Bounds of the model *)

MaxPages == 2       \* pages of a PDF
MaxRuns == 2        \* successive repairs in RepairSpec
MaxEntries == 2     \* entries of the [FILES] section

----------------------------------------------------------------------------
(* PDF pages and their bounding boxes *)

A4Width == 595
A4Height == 842

\* The box of a page without /MediaBox
NoBox == <<>>

\* A rectangle is <<llx, lly, urx, ury>>: two corner points, in points
Rect(llx, lly, urx, ury) == <<llx, lly, urx, ury>>

\* The default rectangle the repair writes
A4Box == Rect(0, 0, A4Width, A4Height)

\* RectangleObject.width / .height of the PDF library: right - left, top - bottom
Width(box) == box[3] - box[1]
Height(box) == box[4] - box[2]

\* The boxes of input pages: absent, or any two corners on the A4 grid
\* (this has zero-width, zero-height and zero-area boxes, A4 itself, and
\* rectangles whose corners are given right-to-left or top-to-bottom)
InputBoxes ==
    {NoBox} \cup { Rect(a, b, c, d) : a \in {0, A4Width}, b \in {0, A4Height},
                                      c \in {0, A4Width}, d \in {0, A4Height} }

\* A smaller set used for the work items of main
SampleBoxes == {NoBox, Rect(0, 0, 0, 0), A4Box, Rect(A4Width, A4Height, 0, 0)}

\* A page: the page object (numbered by its place in the source) and its box
Page(n, box) == [obj |-> n, box |-> box]

\* The documents of at most MaxPages pages with boxes from the given set
Documents(boxes) ==
    UNION { { [i \in 1..n |-> Page(i, bs[i])] : bs \in [1..n -> boxes] } : n \in 0..MaxPages }

----------------------------------------------------------------------------
(* patch_pdf_mediabox *)

\* Mutant: the three tests joined as if a box had to fail both dimensions
NeedsPatchBoth(box) ==
    \/ box = NoBox
    \/ (Width(box) = 0 /\ Height(box) = 0)

\* Mutant: the test of the height left out
NeedsPatchWidthOnly(box) ==
    \/ box = NoBox
    \/ Width(box) = 0

\* The condition of the if statement on a page
NeedsPatch(box) ==
    \/ box = NoBox
    \/ Width(box) = 0
    \/ Height(box) = 0

\* Mutant: the assignment to lower_left left out
SetA4UpperRightOnly(box) ==
    IF box = NoBox THEN A4Box ELSE Rect(box[1], box[2], A4Width, A4Height)

\* The two assignments to lower_left and upper_right
SetA4(box) == A4Box

\* The body of the for loop on one page: the page that is added to the writer
PatchPage(page) ==
    IF NeedsPatch(page.box) THEN [page EXCEPT !.box = SetA4(page.box)] ELSE page

\* Mutant: add_page only in the branch of the pages left alone
RECURSIVE PatchLoopSkipsPatched(_)
PatchLoopSkipsPatched(pages) ==
    IF pages = <<>> THEN <<>>
    ELSE (IF NeedsPatch(Head(pages).box) THEN <<>> ELSE <<Head(pages)>>)
         \o PatchLoopSkipsPatched(Tail(pages))

\* The for loop: every page in reader order goes to the writer
RECURSIVE PatchLoop(_)
PatchLoop(pages) ==
    IF pages = <<>> THEN <<>>
    ELSE <<PatchPage(Head(pages))>> \o PatchLoop(Tail(pages))

\* pages_patched at the end of the loop
RECURSIVE CountPatched(_)
CountPatched(pages) ==
    IF pages = <<>> THEN 0
    ELSE (IF NeedsPatch(Head(pages).box) THEN 1 ELSE 0) + CountPatched(Tail(pages))

\* What a call leaves at output_path: nothing when open was not reached or
\* failed, a partial file when write failed, else the pages of the writer
NoFile == [written |-> FALSE, complete |-> FALSE, pages |-> <<>>]
PartialFile == [written |-> TRUE, complete |-> FALSE, pages |-> <<>>]
PdfFile(pages) == [written |-> TRUE, complete |-> TRUE, pages |-> pages]

\* What the environment decides about one call: whether PdfReader can parse
\* the source, whether the library hands out a (falsy) box object for a page
\* without /MediaBox or raises on the access, and whether open and write succeed
PatchEnv == [readable : BOOLEAN, absentSettable : BOOLEAN,
             write : {"ok", "open_fails", "write_fails"}]

\* The result of patch_pdf_mediabox(pdf_path, output_path):
\*   ok, patched  the returned success flag and the count in the message
\*                (a failure returns no count: 0 stands for it)
\*   error        what the message of a failure names: the step that raised
\*   file         what this call leaves at output_path
Failure(error, file) == [ok |-> FALSE, patched |-> 0, error |-> error, file |-> file]

patch_pdf_mediabox(pages, env) ==
    IF ~env.readable
        THEN Failure("parse", NoFile)
    ELSE IF (\E i \in 1..Len(pages) : pages[i].box = NoBox) /\ ~env.absentSettable
        THEN Failure("mediabox", NoFile)
    ELSE IF env.write = "open_fails"
        THEN Failure("open", NoFile)
    ELSE IF env.write = "write_fails"
        THEN Failure("write", PartialFile)
    ELSE [ok |-> TRUE, patched |-> CountPatched(pages), error |-> "none",
          file |-> PdfFile(PatchLoop(pages))]

----------------------------------------------------------------------------
(* config.ini and parse_config *)

\* A value of the [FILES] section and a file name are sequences of tokens:
\* single characters, and the words "pdf", "PDF", "docx" standing for
\* their letters.  The values are those the parser of config.ini delivers:
\* without blanks around them, except for the line break that starts a value
\* written on the line after its key
ConfigValues ==
    { <<>>,
      <<"#", "a", ".", "pdf">>,
      <<"a", ".", "pdf">>,
      <<"\"", "b", ".", "PDF", "\"">>,
      <<"a", ".", "docx">>,
      <<"\n", "b", ".", "docx">> }

\* str.strip(chars): leading and trailing tokens of chars removed
RECURSIVE LStrip(_, _)
LStrip(s, chars) ==
    IF s # <<>> /\ Head(s) \in chars THEN LStrip(Tail(s), chars) ELSE s

RECURSIVE RStrip(_, _)
RStrip(s, chars) ==
    IF s # <<>> /\ s[Len(s)] \in chars THEN RStrip(SubSeq(s, 1, Len(s) - 1), chars) ELSE s

Strip(s, chars) == RStrip(LStrip(s, chars), chars)

Whitespace == {" ", "\n"}

\* Mutant: only the empty values filtered out
IsEntryNonEmpty(value) == value # <<>>

\* value and not value.strip().startswith("#")
IsEntry(value) ==
    /\ value # <<>>
    /\ ~(Strip(value, Whitespace) # <<>> /\ Head(Strip(value, Whitespace)) = "#")

\* The for loop of parse_config over the values, in file order
RECURSIVE parse_config(_)
parse_config(values) ==
    IF values = <<>> THEN <<>>
    ELSE (IF IsEntry(Head(values))
             THEN <<Strip(Strip(Head(values), Whitespace), {"\""})>>
             ELSE <<>>) \o parse_config(Tail(values))

\* The states config.ini can be in
Configs ==
    { [state |-> st, values |-> <<>>] : st \in {"missing", "malformed", "nosection"} }
    \cup { [state |-> "ok", values |-> vs] :
             vs \in UNION { [1..n -> ConfigValues] : n \in 0..MaxEntries } }

\* Mutant: the test of CONFIG_FILE.exists() left out (the parser reads a
\* missing file as an empty one)
ParseOutcomeNoExistsCheck(cfg) ==
    CASE cfg.state = "missing" -> "ValueError"
      [] cfg.state = "malformed" -> "Exception"
      [] cfg.state = "nosection" -> "ValueError"
      [] OTHER -> "ok"

\* How the call of parse_config in main ends: the exception it raises, or "ok"
ParseOutcome(cfg) ==
    CASE cfg.state = "missing" -> "FileNotFoundError"
      [] cfg.state = "malformed" -> "Exception"
      [] cfg.state = "nosection" -> "ValueError"
      [] OTHER -> "ok"

----------------------------------------------------------------------------
(* File names *)

\* The place of the dot that starts the suffix, 0 if there is none
LastDot(name) ==
    LET dots == { i \in 2..(Len(name) - 1) : name[i] = "." }
    IN  IF dots = {} THEN 0 ELSE CHOOSE i \in dots : \A j \in dots : j <= i

\* Path(file_path).stem
get_base_name(name) ==
    IF LastDot(name) = 0 THEN name ELSE SubSeq(name, 1, LastDot(name) - 1)

\* Path.suffix
Suffix(name) ==
    IF LastDot(name) = 0 THEN <<>> ELSE SubSeq(name, LastDot(name), Len(name))

\* str.lower() on a token
Lower(tok) == IF tok = "PDF" THEN "pdf" ELSE tok

\* doc_path.suffix.lower() == '.pdf'
is_pdf(name) ==
    [i \in 1..Len(Suffix(name)) |-> Lower(Suffix(name)[i])] = <<".", "pdf">>

\* OUTPUT_DIR / f"{output_base_name}.md"
MarkdownPath(base) == base \o <<".", "md">>

\* OUTPUT_DIR / f"{output_base_name}_patched.pdf"
PatchedPath(base) == base \o <<"_patched", ".", "pdf">>

----------------------------------------------------------------------------
(* main and convert_document_to_markdown / convert_docx_to_markdown *)

Scripts == {"convert_documents", "convert_docx"}

\* How a call of converter.convert ends: a result, or the exception raised
\* (its type, and whether its message has "could not find the page-dimensions")
ConvertOutcomes ==
    {"ok", "RuntimeError:dims", "RuntimeError:other", "Exception:dims", "Exception:other"}

\* How the export after a conversion ends: save_as_markdown raises, or a later
\* step raises with the Markdown file written, or all of it succeeds
ExportOutcomes == {"ok", "save_fails", "post_fails"}

\* Mutant: the repair tried whatever the suffix of the file
FirstCallNextAnySuffix(prog, pdf, outcome) ==
    IF outcome = "ok" THEN "export"
    ELSE IF prog = "convert_documents" /\ outcome = "RuntimeError:dims" THEN "patch"
    ELSE "failed"

\* Where the first call of converter.convert leads
FirstCallNext(prog, pdf, outcome) ==
    IF outcome = "ok" THEN "export"
    ELSE IF prog = "convert_documents" /\ outcome = "RuntimeError:dims" /\ pdf THEN "patch"
    ELSE "failed"

\* Mutant: patch_success not tested
PatchNextIgnoresResult(patch_success) == "retry"

\* Where the result of patch_pdf_mediabox leads
PatchNext(patch_success) == IF patch_success THEN "retry" ELSE "failed"

\* Mutant: a retry that fails on the page dimensions repairs again
RetryNextRepairsAgain(outcome) ==
    IF outcome = "ok" THEN "export"
    ELSE IF outcome = "RuntimeError:dims" THEN "patch"
    ELSE "failed"

\* Where the call of converter.convert on the patched file leads
RetryNext(outcome) == IF outcome = "ok" THEN "export" ELSE "failed"

\* Mutant: one failure tolerated
ReturnCodeOffByOne(failures) == IF failures <= 1 THEN 0 ELSE 1

\* return 0 if failure_count == 0 else 1
ReturnCode(failures) == IF failures = 0 THEN 0 ELSE 1

\* Log records
Ev(i, ev, what) == [item |-> i, ev |-> ev, what |-> what]

\* The output directory is the set of its files, [path, content]
EmptyDir == {}

\* A file of the output directory (re)written
WriteFile(dir, path, content) ==
    { f \in dir : f.path # path } \cup { [path |-> path, content |-> content] }

\* main's return value
Running == <<>>
Returned(code) == <<code>>

\* The locals of convert_document_to_markdown outside a call
NoCall == [file_to_convert |-> "None", patched_pdf_path |-> <<>>]

\* The record main keeps of a handled item: its place in the work list, the
\* verdict ("ok", "missing" or "failed"), and what the repair did for it:
\* "none" when it was not called, else "ok" or "failed"; whether a page of
\* the PDF met the condition of the repair; whether output_path was opened
Result(i, verdict, patch) ==
    [item |-> i, verdict |-> verdict, patch |-> patch.status,
     repaired |-> patch.repaired, wrote |-> patch.wrote]

NoPatch == [status |-> "none", repaired |-> FALSE, wrote |-> FALSE]

\* What the log of the current item says about the repair
RECURSIVE PatchOf(_)
PatchOf(events) ==
    IF events = <<>> THEN NoPatch
    ELSE IF Head(events).ev = "patch"
        THEN [status |-> IF Head(events).what.ok THEN "ok" ELSE "failed",
              repaired |-> Head(events).what.needed > 0,
              wrote |-> Head(events).what.wrote]
    ELSE PatchOf(Tail(events))

Init ==
    /\ script \in Scripts
    /\ config \in Configs
    /\ pc = "main"
    /\ files = <<>>
    /\ idx = 0
    /\ success_count = 0
    /\ failure_count = 0
    /\ rc = Running
    /\ cur = NoCall
    /\ outputDir = EmptyDir
    /\ log = <<>>
    /\ results = <<>>
    /\ srcPdf = <<>>
    /\ runs = <<>>

\* main: parse_config raises; the except clauses print the error and return 1
ReadConfigFails ==
    /\ pc = "main"
    /\ ParseOutcome(config) # "ok"
    /\ log' = Append(log, Ev(0, "error", ParseOutcome(config)))
    /\ rc' = Returned(1)
    /\ pc' = "done"
    /\ UNCHANGED <<script, config, files, idx, success_count, failure_count, cur,
                   outputDir, results, srcPdf, runs>>

\* main: parse_config returns the work list; an empty one ends the run with 0
ReadConfig ==
    /\ pc = "main"
    /\ ParseOutcome(config) = "ok"
    /\ files' = parse_config(config.values)
    /\ IF files' = <<>>
          THEN /\ rc' = Returned(0)
               /\ pc' = "done"
               /\ idx' = idx
          ELSE /\ rc' = rc
               /\ pc' = "loop"
               /\ idx' = 1
    /\ success_count' = 0
    /\ failure_count' = 0
    /\ UNCHANGED <<script, config, cur, outputDir, log, results, srcPdf, runs>>

\* Mutant: a failed item ends the for loop
ItemFailedStops(events) ==
    /\ log' = events \o <<Ev(idx, "verdict", "failed")>>
    /\ results' = Append(results, Result(idx, "failed", PatchOf(events)))
    /\ failure_count' = failure_count + 1
    /\ idx' = Len(files) + 1
    /\ pc' = "loop"
    /\ cur' = NoCall

\* The current item ends with a failure, after the events given: main counts
\* it and the for loop goes on
ItemFailed(events) ==
    /\ log' = events \o <<Ev(idx, "verdict", "failed")>>
    /\ results' = Append(results, Result(idx, "failed", PatchOf(events)))
    /\ failure_count' = failure_count + 1
    /\ idx' = idx + 1
    /\ pc' = "loop"
    /\ cur' = NoCall

\* main: the file of the current item does not exist
ItemMissing ==
    /\ pc = "loop"
    /\ idx <= Len(files)
    /\ log' = <<Ev(idx, "verdict", "missing")>>
    /\ results' = Append(results, Result(idx, "missing", NoPatch))
    /\ failure_count' = failure_count + 1
    /\ idx' = idx + 1
    /\ UNCHANGED <<script, config, pc, files, success_count, rc, cur, outputDir,
                   srcPdf, runs>>

\* convert_*_to_markdown: an exception before the converter is called
\* (creating the output directory, building the converter)
SetupFails ==
    /\ pc = "loop"
    /\ idx <= Len(files)
    /\ ItemFailed(<<Ev(idx, "setup", "raises")>>)
    /\ UNCHANGED <<script, config, files, success_count, rc, outputDir, srcPdf, runs>>

\* convert_*_to_markdown up to and including the first converter.convert
ConvertFirst ==
    /\ pc = "loop"
    /\ idx <= Len(files)
    /\ \E outcome \in ConvertOutcomes :
          LET next == FirstCallNext(script, is_pdf(files[idx]), outcome)
              call == Ev(idx, "convert", [path |-> "original", outcome |-> outcome])
          IN  IF next = "failed"
                 THEN ItemFailed(<<call>>)
                 ELSE /\ log' = <<call>>
                      /\ pc' = next
                      /\ cur' = [file_to_convert |-> "original",
                                 patched_pdf_path |->
                                    IF next = "patch"
                                       THEN PatchedPath(get_base_name(files[idx]))
                                       ELSE <<>>]
                      /\ UNCHANGED <<failure_count, idx, results>>
    /\ UNCHANGED <<script, config, files, success_count, rc, outputDir, srcPdf, runs>>

\* convert_document_to_markdown: the call of patch_pdf_mediabox on the original
PatchPdf ==
    /\ pc = "patch"
    /\ \E doc \in Documents(SampleBoxes), env \in PatchEnv :
          LET res == patch_pdf_mediabox(doc, env)
              call == Ev(idx, "patch", [ok |-> res.ok, patched |-> res.patched,
                                        error |-> res.error,
                                        needed |-> CountPatched(doc),
                                        wrote |-> res.file.written])
          IN  /\ outputDir' = IF ~res.file.written THEN outputDir
                              ELSE WriteFile(outputDir, cur.patched_pdf_path,
                                     IF res.file.complete THEN "pdf" ELSE "partial")
              /\ IF PatchNext(res.ok) = "failed"
                    THEN ItemFailed(Append(log, call))
                    ELSE /\ log' = Append(log, call)
                         /\ pc' = "retry"
                         /\ cur' = [cur EXCEPT !.file_to_convert = "patched"]
                         /\ UNCHANGED <<failure_count, idx, results>>
    /\ UNCHANGED <<script, config, files, success_count, rc, srcPdf, runs>>

\* convert_document_to_markdown: converter.convert on file_to_convert again
ConvertRetry ==
    /\ pc = "retry"
    /\ \E outcome \in ConvertOutcomes :
          LET next == RetryNext(outcome)
              call == Ev(idx, "convert", [path |-> cur.file_to_convert, outcome |-> outcome])
          IN  IF next = "failed"
                 THEN ItemFailed(Append(log, call))
                 ELSE /\ log' = Append(log, call)
                      /\ pc' = next
                      /\ UNCHANGED <<failure_count, idx, cur, results>>
    /\ UNCHANGED <<script, config, files, success_count, rc, outputDir, srcPdf, runs>>

\* convert_*_to_markdown from save_as_markdown to the return, and main's count
Export ==
    /\ pc = "export"
    /\ \E outcome \in ExportOutcomes :
          LET events == Append(log, Ev(idx, "export", outcome))
          IN  /\ outputDir' =
                    IF outcome = "save_fails" THEN outputDir
                    ELSE WriteFile(outputDir, MarkdownPath(get_base_name(files[idx])),
                                   "markdown")
              /\ IF outcome = "ok"
                    THEN /\ log' = events \o <<Ev(idx, "verdict", "ok")>>
                         /\ results' = Append(results, Result(idx, "ok", PatchOf(events)))
                         /\ success_count' = success_count + 1
                         /\ idx' = idx + 1
                         /\ pc' = "loop"
                         /\ cur' = NoCall
                         /\ UNCHANGED failure_count
                    ELSE /\ ItemFailed(events)
                         /\ UNCHANGED success_count
    /\ UNCHANGED <<script, config, files, rc, srcPdf, runs>>

\* main: the for loop is over; the summary and the return code
Summary ==
    /\ pc = "loop"
    /\ idx > Len(files)
    /\ rc' = Returned(ReturnCode(failure_count))
    /\ pc' = "done"
    /\ UNCHANGED <<script, config, files, idx, success_count, failure_count, cur,
                   outputDir, log, results, srcPdf, runs>>

Next ==
    \/ ReadConfigFails
    \/ ReadConfig
    \/ ItemMissing
    \/ SetupFails
    \/ ConvertFirst
    \/ PatchPdf
    \/ ConvertRetry
    \/ Export
    \/ Summary

Spec == Init /\ [][Next]_vars

----------------------------------------------------------------------------
(* Properties of a run of main, checked under Spec *)

\* The places of the log of the current item with a call of the converter,
\* and with a call of the repair
Calls == { k \in 1..Len(log) : log[k].ev = "convert" }
Patches == { k \in 1..Len(log) : log[k].ev = "patch" }

\* The log ends at place k + 1, with the verdict "failed"
FailsAfter(k) ==
    /\ Len(log) = k + 1
    /\ log[k + 1].ev = "verdict"
    /\ log[k + 1].what = "failed"

\* C3: for one work item the converter is called at most twice and the repair
\* at most once; the first call is on the original; a second call is the
\* third step, after a first call that failed with the RuntimeError of the
\* missing page dimensions on a PDF and a repair that succeeded, and it is on
\* the patched file; that failure of the first call leads to the repair; any
\* other failure of the first call, and any failure of the second, makes the
\* item failed with no further call.
C3_OneRepairAndRetry ==
    /\ Cardinality(Calls) <= 2
    /\ Cardinality(Patches) <= 1
    /\ \A k \in Calls :
          \/ k = 1 /\ log[k].what.path = "original"
          \/ /\ k = 3
             /\ log[1].ev = "convert"
             /\ log[1].what.outcome = "RuntimeError:dims"
             /\ log[2].ev = "patch"
             /\ log[2].what.ok
             /\ log[k].what.path = "patched"
    /\ \A k \in Calls :
          (k = 1 /\ log[k].what.outcome = "RuntimeError:dims"
                 /\ script = "convert_documents" /\ is_pdf(files[log[k].item]))
          => IF Len(log) = 1 THEN pc = "patch" ELSE log[2].ev = "patch"
    /\ \A k \in Calls :
          (k = 1 /\ log[k].what.outcome \notin {"ok", "RuntimeError:dims"})
          => FailsAfter(k)
    /\ \A k \in Calls :
          (k = 3 /\ log[k].what.outcome # "ok") => FailsAfter(k)

\* A retry on the patched file that failed again on the page dimensions
C3_Witness ==
    /\ Len(log) = 4
    /\ log[3].ev = "convert"
    /\ log[3].what.path = "patched"
    /\ log[3].what.outcome = "RuntimeError:dims"
    /\ log[4].ev = "verdict"

\* C4: with the configuration read, main returns only when every work item
\* has been handled; it returns 0 if every item converted, and 1 if an item
\* was missing or failed.
C4_ReturnCode ==
    (config.state = "ok" /\ rc # Running)
    => /\ pc = "done"
       /\ Len(results) = Len(files)
       /\ rc \in {Returned(0), Returned(1)}
       /\ rc = Returned(0) <=> \A i \in 1..Len(results) : results[i].verdict = "ok"

\* A run that ends with 1 after a converted item and a missing one
C4_Witness ==
    /\ pc = "done"
    /\ rc = Returned(1)
    /\ Len(results) = 2
    /\ results[1].verdict = "ok"
    /\ results[2].verdict = "missing"

\* C5: the items are handled once each, in the order of the work list; each
\* adds one to success_count or, when missing or failed, to failure_count;
\* at the summary the two counts add up to the number of work items.
C5_EveryItemOnce ==
    /\ \A i \in 1..Len(results) : results[i].item = i
    /\ Len(results) <= Len(files)
    /\ pc \in {"loop", "patch", "retry", "export"} => Len(results) = idx - 1
    /\ success_count = Cardinality({ i \in 1..Len(results) : results[i].verdict = "ok" })
    /\ failure_count = Cardinality({ i \in 1..Len(results) : results[i].verdict # "ok" })
    /\ (pc = "done" /\ config.state = "ok")
       => /\ Len(results) = Len(files)
          /\ success_count + failure_count = Len(files)

\* A run over two items, the first failed in the repair, the second converted
C5_Witness ==
    /\ pc = "done"
    /\ Len(files) = 2
    /\ Len(results) = 2
    /\ results[1].verdict = "failed" /\ results[1].patch = "failed"
    /\ results[2].verdict = "ok"

\* C6: a repair that cannot parse the source or write the destination returns
\* a failure naming the step; after a failed repair the item is failed at
\* once: no call of the converter on the patched path, no export.
C6_FailedRepairNotUsed ==
    \A k \in Patches :
        /\ log[k].what.error \in {"parse", "mediabox", "open", "write"} <=> ~log[k].what.ok
        /\ ~log[k].what.ok
           => /\ FailsAfter(k)
              /\ \A j \in Calls : log[j].what.path = "original"
              /\ \A j \in 1..Len(log) : log[j].ev # "export"
              /\ results[Len(results)].item = log[k].item
              /\ results[Len(results)].verdict = "failed"

\* A repair that failed while writing, leaving a partial file
C6_Witness ==
    \E k \in Patches :
        /\ ~log[k].what.ok
        /\ log[k].what.error = "write"
        /\ log[k].what.wrote

\* The patched files of the output directory
IsPatchedPath(path) == Len(path) >= 3 /\ path[Len(path) - 2] = "_patched"
PatchedFiles == { f \in outputDir : IsPatchedPath(f.path) }

\* The work items a patched file can come from
ItemsOf(f) ==
    { i \in 1..Len(results) : PatchedPath(get_base_name(files[i])) = f.path }

\* C8 as claimed: after main, a file <base>_patched.pdf exists only for work
\* items that are PDFs in which at least one page was repaired.
C8_OnlyWhenPageRepaired ==
    pc = "done"
    => \A f \in PatchedFiles :
          \E i \in ItemsOf(f) : is_pdf(files[i]) /\ results[i].repaired

\* C8 as amended: after main, a file <base>_patched.pdf exists only for work
\* items that are PDFs for which the repair was called (their first
\* conversion failed on the page dimensions) and opened its output, whether
\* or not a page was patched; there is none after a run of convert_docx.
C8_OnlyWhenRepairCalled ==
    pc = "done"
    => /\ \A f \in PatchedFiles :
             \E i \in ItemsOf(f) :
                 /\ is_pdf(files[i])
                 /\ results[i].patch # "none"
                 /\ results[i].wrote
       /\ script = "convert_docx" => PatchedFiles = {}
       /\ \A i \in 1..Len(results) : ~is_pdf(files[i]) => results[i].patch = "none"

\* A run that leaves the patched file of a PDF in which no page was patched
C8_Witness ==
    /\ pc = "done"
    /\ \E f \in PatchedFiles : \E i \in ItemsOf(f) :
          /\ f.content = "pdf"
          /\ results[i].patch = "ok"
          /\ ~results[i].repaired

\* C10: without config.ini, main reports the missing configuration and
\* returns 1; no item is handled, no call is made, no file is written.
C10_MissingConfig ==
    config.state = "missing"
    => /\ pc \in {"main", "done"}
       /\ files = <<>>
       /\ results = <<>>
       /\ outputDir = EmptyDir
       /\ pc = "main" => (log = <<>> /\ rc = Running)
       /\ pc = "done" => /\ rc = Returned(1)
                         /\ log = <<Ev(0, "error", "FileNotFoundError")>>

\* main has returned without a config.ini
C10_Witness ==
    /\ config.state = "missing"
    /\ pc = "done"
    /\ rc # Running

\* The part of a value between its first and its last token outside chars
Core(value, chars) ==
    LET inside == { i \in 1..Len(value) : value[i] \notin chars }
        first == CHOOSE i \in inside : \A j \in inside : i <= j
        last == CHOOSE i \in inside : \A j \in inside : j <= i
    IN  IF inside = {} THEN <<>> ELSE SubSeq(value, first, last)

\* An entry with a non-empty value that does not begin with "#"
NotCommented(value) == Len(value) > 0 /\ value[1] # "#"

\* The same, with the blanks that lead the value set aside
NotCommentedTrimmed(value) ==
    /\ Len(value) > 0
    /\ ~(Core(value, {" ", "\n"}) # <<>> /\ Core(value, {" ", "\n"})[1] = "#")

\* The entries of config.ini are all empty or commented
AllSkipped == \A i \in 1..Len(config.values) : ~NotCommented(config.values[i])

\* main returned 0 with nothing attempted
NothingAttempted ==
    /\ pc = "done"
    /\ rc = Returned(0)
    /\ results = <<>>
    /\ log = <<>>
    /\ outputDir = EmptyDir

\* C11 as claimed: with entries all commented or empty, parse_config returns
\* no work item and main returns 0 with no conversion attempted; in general
\* parse_config returns the entries whose value is non-empty and does not
\* begin with "#", in file order.
C11_ReturnsEntries ==
    (config.state = "ok" /\ pc # "main")
    => /\ files = SelectSeq(config.values, NotCommented)
       /\ AllSkipped => (files = <<>> /\ NothingAttempted)

\* C11 as amended: with entries all commented or empty, parse_config returns
\* no work item and main returns 0 with no conversion attempted; in general
\* parse_config returns one work item for each entry whose value is
\* non-empty and does not begin with "#" (leading blanks aside), in file
\* order: the value without the blanks around it and then without the double
\* quotes around it.
C11_ReturnsTrimmedEntries ==
    (config.state = "ok" /\ pc # "main")
    => LET kept == SelectSeq(config.values, NotCommentedTrimmed)
       IN  /\ Len(files) = Len(kept)
           /\ \A i \in 1..Len(kept) :
                 files[i] = Core(Core(kept[i], {" ", "\n"}), {"\""})
           /\ AllSkipped => (files = <<>> /\ NothingAttempted)
           /\ files = <<>> => NothingAttempted

\* main has returned over a config.ini of two entries, one empty and one
\* commented
C11_Witness ==
    /\ config.state = "ok"
    /\ Len(config.values) = 2
    /\ \E i, j \in 1..2 :
          /\ config.values[i] = <<>>
          /\ Len(config.values[j]) > 0 /\ config.values[j][1] = "#"
    /\ files = <<>>
    /\ pc = "done"
    /\ rc = Returned(0)

----------------------------------------------------------------------------
(* RepairSpec: the repair applied to a PDF, then to the file it wrote *)

PdfDocuments == Documents(InputBoxes)

\* One call of patch_pdf_mediabox: its input pages and its result
Run(pages, env) == [src |-> pages, res |-> patch_pdf_mediabox(pages, env)]

RepairInit ==
    /\ srcPdf \in PdfDocuments
    /\ runs = <<>>
    /\ script = "convert_documents"
    /\ config = [state |-> "missing", values |-> <<>>]
    /\ pc = "repair"
    /\ files = <<>>
    /\ idx = 0
    /\ success_count = 0
    /\ failure_count = 0
    /\ rc = Running
    /\ cur = NoCall
    /\ outputDir = EmptyDir
    /\ log = <<>>
    /\ results = <<>>

\* patch_pdf_mediabox(srcPdf, out_1)
RepairSource ==
    /\ runs = <<>>
    /\ \E env \in PatchEnv : runs' = <<Run(srcPdf, env)>>
    /\ UNCHANGED <<srcPdf, mainVars>>

\* patch_pdf_mediabox(out_k, out_k+1) on the file the last call wrote
RepairPatched ==
    /\ runs # <<>>
    /\ Len(runs) < MaxRuns
    /\ runs[Len(runs)].res.ok
    /\ \E env \in PatchEnv :
           runs' = Append(runs, Run(runs[Len(runs)].res.file.pages, env))
    /\ UNCHANGED <<srcPdf, mainVars>>

RepairNext ==
    \/ RepairSource
    \/ RepairPatched

RepairSpec == RepairInit /\ [][RepairNext]_vars

----------------------------------------------------------------------------
(* Properties of the repair, checked under RepairSpec *)

\* The calls of the repair that returned success
OkRuns == { k \in 1..Len(runs) : runs[k].res.ok }

In(k) == runs[k].src
Out(k) == runs[k].res.file.pages

\* Stated on the four numbers of a box, apart from the model of the code
Absent(box) == Len(box) = 0
ZeroWidth(box) == Len(box) = 4 /\ box[1] = box[3]
ZeroHeight(box) == Len(box) = 4 /\ box[2] = box[4]
Degenerate(box) == Absent(box) \/ ZeroWidth(box) \/ ZeroHeight(box)
DefaultRectangle == <<0, 0, 595, 842>>

\* C1: after a successful patch_pdf_mediabox, a page whose box was absent or
\* had zero width or zero height has the box (0,0)-(595,842), every other
\* page has the box it had, and the count returned is the number of pages of
\* the first kind.
C1_DefaultOrUnchanged ==
    \A k \in OkRuns :
        /\ Len(Out(k)) = Len(In(k))
        /\ \A i \in 1..Len(In(k)) :
              Out(k)[i].box = IF Degenerate(In(k)[i].box) THEN DefaultRectangle
                              ELSE In(k)[i].box
        /\ runs[k].res.patched =
              Cardinality({ i \in 1..Len(In(k)) : Degenerate(In(k)[i].box) })

\* A successful repair of a PDF with a page of each kind: one with a box of
\* zero width, and one with a box that is neither degenerate nor the default
C1_Witness ==
    \E k \in OkRuns : \E i, l \in 1..Len(In(k)) :
        /\ ZeroWidth(In(k)[i].box)
        /\ ~Degenerate(In(k)[l].box) /\ In(k)[l].box # DefaultRectangle
        /\ runs[k].res.patched = 1

C7_PagesPreserved ==
    \A k \in OkRuns :
        /\ Len(Out(k)) = Len(In(k))
        /\ \A i \in 1..Len(In(k)) : Out(k)[i].obj = In(k)[i].obj

\* A successful repair of a PDF of two pages or more, the first of them patched
C7_Witness ==
    \E k \in OkRuns :
        /\ Len(In(k)) >= 2
        /\ Degenerate(In(k)[1].box)
        /\ ~Degenerate(In(k)[2].box)

\* C9: a successful repair of a PDF whose pages all have a box of non-zero
\* width and height reports zero pages patched and leaves every box as it
\* was; and a successful repair of the output of a successful repair reports
\* zero pages patched and yields the boxes of that output.
C9_Idempotent ==
    /\ \A k \in OkRuns :
          (\A i \in 1..Len(In(k)) : ~Degenerate(In(k)[i].box))
          => /\ runs[k].res.patched = 0
             /\ [i \in 1..Len(Out(k)) |-> Out(k)[i].box]
                   = [i \in 1..Len(In(k)) |-> In(k)[i].box]
    /\ \A k \in OkRuns :
          k > 1
          => /\ runs[k].res.patched = 0
             /\ [i \in 1..Len(Out(k)) |-> Out(k)[i].box]
                   = [i \in 1..Len(Out(k - 1)) |-> Out(k - 1)[i].box]

\* A second successful repair, of the output of a repair that patched a page
C9_Witness ==
    /\ Len(runs) >= 2
    /\ runs[1].res.ok /\ runs[1].res.patched > 0
    /\ runs[2].res.ok

====
